---- MODULE Spec2Model ----
(***************************************************************************)
(* A model of references_search.py: the batch loop of main(), the DOI      *)
(* resolution (extract_doi, search_crossref), the provider chain           *)
(* (get_pdf_url and its three providers), download_pdf and save_results.   *)
(* Text is modelled by TLA+ strings, one character being SubSeq(s, i, i).  *)
(***************************************************************************)
EXTENDS Naturals, Sequences, FiniteSets, TLC

(***************************************************************************)
(* Program constants.                                                      *)
(***************************************************************************)
DELAY == 2
MAX_RETRIES == 3
MAX_FILENAME_LENGTH == 100

(***************************************************************************)
(* Bounds of the model.                                                    *)
(***************************************************************************)
\* The longest reference list a run is started with.
MaxRefs == 2

\* Python's None, and the truth value Python gives a string or None.
None == "None"
Truthy(v) == v # None /\ v # ""

\* dict.get(key, default)
Get(d, k, default) == IF k \in DOMAIN d THEN d[k] ELSE default

(***************************************************************************)
(* Characters and strings.                                                 *)
(***************************************************************************)
UPPERCASE == "ABCDEFGHIJKLMNOPQRSTUVWXYZ"
LOWERCASE == "abcdefghijklmnopqrstuvwxyz"
DIGITS == "0123456789"

Char(s, i) == IF i >= 1 /\ i <= Len(s) THEN SubSeq(s, i, i) ELSE ""
CharIn(c, chars) == c # "" /\ \E i \in 1..Len(chars) : SubSeq(chars, i, i) = c
IsDigit(c) == CharIn(c, DIGITS)

\* str.lower() of one character, then of a string.
ToLower(c) ==
    IF CharIn(c, UPPERCASE)
    THEN LET i == CHOOSE j \in 1..Len(UPPERCASE) : SubSeq(UPPERCASE, j, j) = c
         IN SubSeq(LOWERCASE, i, i)
    ELSE c

RECURSIVE LowerFrom(_, _)
LowerFrom(s, i) == IF i > Len(s) THEN "" ELSE ToLower(Char(s, i)) \o LowerFrom(s, i + 1)

\* A faulty variant: the text is left as it is.
lower_unchanged(s) == s

lower(s) == LowerFrom(s, 1)

(***************************************************************************)
(* extract_doi: re.search(r'(10.\d{4,9}/[-._;()/:A-Z0-9]+)', reference,    *)
(* re.IGNORECASE), lower-cased.                                            *)
(***************************************************************************)
\* The character class [-._;()/:A-Z0-9] under re.IGNORECASE.
DoiSuffixChar(c) ==
    CharIn(c, "-._;()/:") \/ CharIn(c, UPPERCASE) \/ CharIn(c, LOWERCASE) \/ IsDigit(c)

\* The length of the longest run of characters satisfying P that starts at i.
RECURSIVE DigitRun(_, _)
DigitRun(s, i) == IF IsDigit(Char(s, i)) THEN 1 + DigitRun(s, i + 1) ELSE 0

RECURSIVE SuffixRun(_, _)
SuffixRun(s, i) == IF DoiSuffixChar(Char(s, i)) THEN 1 + SuffixRun(s, i + 1) ELSE 0

\* The digit counts k of \d{4,9} with which the pattern matches at position i.
DoiDigitCounts(s, i) ==
    { k \in 4..9 : /\ k <= DigitRun(s, i + 3)
                   /\ Char(s, i + 3 + k) = "/"
                   /\ SuffixRun(s, i + 4 + k) >= 1 }

\* The pattern matches at position i: "10", any character, the digits, "/", the run.
DoiMatchesAt(s, i) ==
    /\ Char(s, i) = "1"
    /\ Char(s, i + 1) = "0"
    /\ Char(s, i + 2) # ""
    /\ DoiDigitCounts(s, i) # {}

\* The greatest and the least element of a non-empty set of numbers.
Greatest(S) == { n \in S : \A m \in S : m <= n }
Least(S) == { n \in S : \A m \in S : n <= m }

\* The matched text at i: the quantifiers are greedy.
DoiMatchAt(s, i) ==
    CHOOSE m \in { SubSeq(s, i, i + 3 + k + SuffixRun(s, i + 4 + k)) :
                   k \in Greatest(DoiDigitCounts(s, i)) } : TRUE

\* re.search returns the leftmost match; group(1) is the whole match.
extract_doi(reference) ==
    LET starts == { i \in 1..Len(reference) : DoiMatchesAt(reference, i) }
    IN IF starts = {} THEN None
       ELSE CHOOSE d \in { lower(m) : m \in { DoiMatchAt(reference, first) :
                                               first \in Least(starts) } } : TRUE

(***************************************************************************)
(* The inputs of a run: reference texts, and what the remote services      *)
(* answer.  A response is [status, body]: "timeout" is a transport failure *)
(* (requests.get raises), "500" a non-2xx answer (raise_for_status raises),*)
(* "200" a 2xx answer carrying the body.  The responses are kept in tuples *)
(* because their bodies have different shapes.                             *)
(***************************************************************************)
RefWithDoi == "Doe 10.1234/AbC, 2001"
\* "10.12/x" has too few digits for the DOI pattern.
RefNoDoi == "Roe: Title? 10.12/x, 1999"
ReferencePool == {RefWithDoi, RefNoDoi}

\* Two texts with the same first MAX_FILENAME_LENGTH characters whose MD5
\* digests begin with the same 8 hexadecimal digits.
LongTitle ==
    "Smith, J., Jones, A., Brown, K., & Taylor, M. (2010). Scrupulosity and "
    \o "obsessive-compulsive symptoms: Technical report no. "
RefReport96632 == LongTitle \o "96632"
RefReport133981 == LongTitle \o "133981"

\* The lists read_references can return: every list over the pool, and the
\* two reports one after the other.
ReferenceLists ==
    UNION { [1..n -> ReferencePool] : n \in 0..MaxRefs }
    \cup { << RefReport96632, RefReport133981 >> }

NotJson == [raw |-> "<html>"]

\* A JSON null where an object may stand, and the None that Element.find returns.
JsonNull == [null |-> TRUE]
IsNull(v) == "null" \in DOMAIN v

CrossrefResponses ==
    << [status |-> "timeout", body |-> NotJson],
       [status |-> "500", body |-> NotJson],
       [status |-> "200", body |-> NotJson],
       [status |-> "200", body |-> [status |-> "ok"]],
       [status |-> "200", body |-> [message |-> [items |-> << >>]]],
       [status |-> "200", body |-> [message |-> [items |-> << [title |-> "t"] >>]]],
       [status |-> "200", body |-> [message |-> [items |-> << [DOI |-> "10.5555/XyZ"] >>]]] >>

UnpaywallResponses ==
    << [status |-> "timeout", body |-> NotJson],
       [status |-> "500", body |-> NotJson],
       [status |-> "200", body |-> NotJson],
       [status |-> "200", body |-> [is_oa |-> FALSE, best_oa_location |-> JsonNull]],
       [status |-> "200", body |-> [is_oa |-> TRUE, best_oa_location |-> JsonNull]],
       [status |-> "200", body |-> [is_oa |-> FALSE, best_oa_location |->
            [url_for_pdf |-> "https://oa.example/a.pdf", url |-> "https://oa.example/a"]]],
       [status |-> "200", body |-> [is_oa |-> TRUE, best_oa_location |->
            [url_for_pdf |-> "https://oa.example/a.pdf", url |-> "https://oa.example/a"]]],
       [status |-> "200", body |-> [is_oa |-> TRUE, best_oa_location |->
            [url_for_pdf |-> None, url |-> "https://oa.example/a"]]],
       [status |-> "200", body |-> [is_oa |-> TRUE, best_oa_location |->
            [url_for_pdf |-> "", url |-> None]]] >>

\* The XML of the ID converter, as the element tree ET.fromstring builds.
PmcResponses ==
    << [status |-> "timeout", body |-> NotJson],
       [status |-> "500", body |-> NotJson],
       [status |-> "200", body |-> NotJson],
       [status |-> "200", body |-> [children |-> << >>]],
       [status |-> "200", body |-> [children |-> << [tag |-> "record", children |-> << >>] >>]],
       [status |-> "200", body |-> [children |-> << [tag |-> "record", children |->
            << [tag |-> "pmcid", text |-> "PMC42"] >>] >>]] >>

CoreResponses ==
    << [status |-> "timeout", body |-> NotJson],
       [status |-> "500", body |-> NotJson],
       [status |-> "200", body |-> NotJson],
       [status |-> "200", body |-> [status |-> "Not found"]],
       [status |-> "200", body |-> [fullTextUrl |-> ""]],
       [status |-> "200", body |-> [fullTextUrl |-> "https://core.example/f.pdf"]] >>

DownloadResponses ==
    << [status |-> "timeout", content |-> ""],
       [status |-> "500", content |-> "<html>error</html>"],
       [status |-> "200", content |-> "%PDF-1.4"] >>

\* What open(filename, 'wb') and f.write do: succeed, or raise OSError at
\* the open (no file) or at the write (the file is left truncated).
WriteOutcomes == {"ok", "open_fails", "write_fails"}

\* The messages of the unexpected exceptions of main's loop body.
ExceptionMessages == {"boom"}

(***************************************************************************)
(* exponential_backoff and get_safe_filename.                              *)
(***************************************************************************)
\* A faulty variant: the same delay before every retry.
exponential_backoff_flat(attempt) == DELAY

exponential_backoff(attempt) == DELAY * (2 ^ attempt)

\* re.sub(r'[\\/*?:"<>|]', "_", reference)
\* The characters lo..hi of s, sanitized: the range is halved, which keeps the
\* recursion shallow on long references.
RECURSIVE SanitizeRange(_, _, _)
SanitizeRange(s, lo, hi) ==
    IF lo > hi THEN ""
    ELSE IF lo = hi
         THEN (IF CharIn(Char(s, lo), "\\/*?:\"<>|") THEN "_" ELSE Char(s, lo))
         ELSE SanitizeRange(s, lo, (lo + hi) \div 2)
              \o SanitizeRange(s, ((lo + hi) \div 2) + 1, hi)

Sanitize(s) == SanitizeRange(s, 1, Len(s))

Truncate(s, n) == IF Len(s) <= n THEN s ELSE SubSeq(s, 1, n)

\* hashlib.md5(reference.encode()).hexdigest(), tabulated for the reference pool.
md5_hexdigest(reference) ==
    CASE reference = RefWithDoi -> "e45e3f1bfb5008266d4a0684d7f042d1"
      [] reference = RefNoDoi -> "5bd3c5e537d9fd0786e0499adf2c855c"
      [] reference = RefReport96632 -> "99fa3fff928555258ade9a5aa54d73ac"
      [] reference = RefReport133981 -> "99fa3ffff538484f3cf2383faad1e29a"

get_safe_filename(reference, doi) ==
    LET safe_name == Truncate(Sanitize(reference), MAX_FILENAME_LENGTH)
        name_hash == Truncate(md5_hexdigest(reference), 8)
    IN safe_name \o "_" \o name_hash \o ".pdf"

(***************************************************************************)
(* One pass through the try block of each network function: the value it   *)
(* returns, or the fact that it raised.                                    *)
(***************************************************************************)
Raised == [raised |-> TRUE, value |-> None]
Returned(v) == [raised |-> FALSE, value |-> v]

\* A faulty variant: raise_for_status is not called, a non-2xx answer passes.
RequestRaises_transport_only(resp) == resp.status = "timeout"

\* requests.get raises on a transport failure, raise_for_status on a non-2xx.
RequestRaises(resp) == resp.status # "200"

\* response.json() raises on a body that is not JSON.
IsJson(body) == "raw" \notin DOMAIN body

search_crossref_try(resp) ==
    IF RequestRaises(resp) \/ ~IsJson(resp.body) THEN Raised
    ELSE IF "message" \notin DOMAIN resp.body THEN Raised
    ELSE IF resp.body.message.items # << >>
         THEN Returned(lower(Get(resp.body.message.items[1], "DOI", "")))
         ELSE Returned(None)

\* A faulty variant: the location is returned whether or not is_oa is set.
get_unpaywall_pdf_url_try_ignores_is_oa(resp) ==
    IF RequestRaises(resp) \/ ~IsJson(resp.body) THEN Raised
    ELSE LET data == resp.body
         IN IF ~IsNull(data.best_oa_location)
            THEN LET pdf_url == IF Truthy(data.best_oa_location.url_for_pdf)
                                THEN data.best_oa_location.url_for_pdf
                                ELSE data.best_oa_location.url
                 IN IF Truthy(pdf_url) THEN Returned(pdf_url) ELSE Returned(None)
            ELSE Returned(None)

get_unpaywall_pdf_url_try(resp) ==
    IF RequestRaises(resp) \/ ~IsJson(resp.body) THEN Raised
    ELSE LET data == resp.body
         IN IF data.is_oa /\ ~IsNull(data.best_oa_location)
            THEN LET pdf_url == IF Truthy(data.best_oa_location.url_for_pdf)
                                THEN data.best_oa_location.url_for_pdf
                                ELSE data.best_oa_location.url
                 IN IF Truthy(pdf_url) THEN Returned(pdf_url) ELSE Returned(None)
            ELSE Returned(None)

\* Element.find(tag): the first child with that tag, or None.
Find(element, tag) ==
    LET hits == { i \in 1..Len(element.children) : element.children[i].tag = tag }
    IN IF hits = {} THEN JsonNull
       ELSE element.children[CHOOSE i \in hits : \A j \in hits : i <= j]

search_pmc_try(resp) ==
    IF RequestRaises(resp) \/ ~IsJson(resp.body) THEN Raised
    ELSE LET article == Find(resp.body, "record")
         IN IF ~IsNull(article) /\ ~IsNull(Find(article, "pmcid"))
            THEN Returned("https://www.ncbi.nlm.nih.gov/pmc/articles/"
                          \o Find(article, "pmcid").text \o "/pdf/")
            ELSE Returned(None)

search_core_try(resp) ==
    IF RequestRaises(resp) \/ ~IsJson(resp.body) THEN Raised
    ELSE IF Truthy(Get(resp.body, "fullTextUrl", None))
         THEN Returned(resp.body.fullTextUrl)
         ELSE Returned(None)

\* download_pdf's try block returns True after the write.
download_pdf_try(resp, write) ==
    IF RequestRaises(resp) \/ write # "ok" THEN Raised ELSE Returned(TRUE)

(***************************************************************************)
(* The state of a run of main().                                           *)
(***************************************************************************)
VARIABLES
    references,  \* the list read_references returned
    pc,          \* where main() stands
    idx,         \* the position of `ref` in references (1-based)
    doi,         \* main's local doi: it lives on from one iteration to the next
    pdf_url,     \* main's local pdf_url: line 267 assigns it before every read, so
                 \* its value is dropped once the reference's outcome is recorded
    call,        \* the frame of the network function running, kept after its
                 \* return until main has recorded the reference's outcome
    calls,       \* the calls returned and the pacing delays slept for the current
                 \* reference, until its outcome is recorded
    results,     \* main's results list
    exc,         \* the exception travelling to main's except clause, or None
    files,       \* the output directory: a set of [name, content]
    report,      \* results.csv: NoReport, or the file with its rows
    saved,       \* what save_results did: "not called", "written", "failed"
    raisedAt     \* history: the positions whose processing raised

vars == << references, pc, idx, doi, pdf_url, call, calls, results, exc, files,
           report, saved, raisedAt >>

\* A local that is not bound yet ('doi' in locals() is false).
Unbound == "<unbound>"
NoReport == [exists |-> FALSE, rows |-> << >>]

\* A frame: attempt is the loop variable, tries counts the requests sent, sleeps
\* lists the backoff delays slept, resp, last and failed describe the latest
\* pass through the try block (the response received, as its place in the
\* function's responses, and its status; whether the pass raised),
\* returned/ret the return, raises an exception leaving the function.
NewCall(fn, arg) ==
    [fn |-> fn, arg |-> arg, attempt |-> 0, tries |-> 0, sleeps |-> << >>,
     resp |-> 0, last |-> "none", failed |-> FALSE, returned |-> FALSE,
     ret |-> IF fn = "download_pdf" THEN FALSE ELSE None, raises |-> FALSE]
NoCall == NewCall("none", "")

\* The frame once requests.get has answered with the i-th response.
Received(c, i) == [c EXCEPT !.resp = i]

Event(c) == [fn |-> c.fn, arg |-> c.arg, ret |-> c.ret, failed |-> c.failed]
Sleep(seconds) == [fn |-> "time.sleep", arg |-> seconds, ret |-> None, failed |-> FALSE]

Outcome(reference, d, retrieved, source) ==
    [reference |-> reference, DOI |-> d, Retrieved |-> retrieved, Source |-> source]

ref == references[idx]

(***************************************************************************)
(* The retry loop of search_crossref, get_unpaywall_pdf_url and            *)
(* download_pdf: `for attempt in range(MAX_RETRIES)` around a try block    *)
(* whose except clause sleeps and goes round again, or returns on the      *)
(* last attempt.                                                           *)
(***************************************************************************)
\* A faulty variant: the last attempt's exception is raised again, not swallowed.
RetryExcept_reraise(c, failValue) ==
    IF c.attempt < MAX_RETRIES - 1
    THEN [c EXCEPT !.sleeps = Append(@, exponential_backoff(c.attempt)),
                   !.attempt = @ + 1]
    ELSE [c EXCEPT !.raises = TRUE]

RetryExcept(c, failValue) ==
    IF c.attempt < MAX_RETRIES - 1
    THEN [c EXCEPT !.sleeps = Append(@, exponential_backoff(c.attempt)),
                   !.attempt = @ + 1]
    ELSE [c EXCEPT !.returned = TRUE, !.ret = failValue]

\* A faulty variant: an answer without a result goes round the loop again
\* instead of returning None.
RetryLoopStep_retry_absent(c, resp, r, failValue) ==
    LET c1 == [c EXCEPT !.tries = @ + 1, !.last = resp.status, !.failed = r.raised]
    IN IF r.raised THEN RetryExcept(c1, failValue)
       ELSE IF c.fn # "download_pdf" /\ r.value = None /\ c.attempt < MAX_RETRIES - 1
            THEN [c1 EXCEPT !.attempt = @ + 1]
            ELSE [c1 EXCEPT !.returned = TRUE, !.ret = r.value]

\* A faulty variant: an answer without a result is handled like a failure, with
\* a backoff delay and another request.
RetryLoopStep_backoff_on_absent(c, resp, r, failValue) ==
    LET c1 == [c EXCEPT !.tries = @ + 1, !.last = resp.status, !.failed = r.raised]
    IN IF r.raised \/ (c.fn # "download_pdf" /\ r.value = None)
       THEN RetryExcept(c1, failValue)
       ELSE [c1 EXCEPT !.returned = TRUE, !.ret = r.value]

RetryLoopStep(c, resp, r, failValue) ==
    LET c1 == [c EXCEPT !.tries = @ + 1, !.last = resp.status, !.failed = r.raised]
    IN IF r.raised THEN RetryExcept(c1, failValue)
       ELSE [c1 EXCEPT !.returned = TRUE, !.ret = r.value]

\* A faulty variant: no except clause, the exception leaves the provider.
SingleTry_propagates(c, resp, r) ==
    IF r.raised
    THEN [c EXCEPT !.tries = @ + 1, !.last = resp.status, !.failed = TRUE, !.raises = TRUE]
    ELSE [c EXCEPT !.tries = @ + 1, !.last = resp.status, !.failed = FALSE,
                   !.returned = TRUE, !.ret = r.value]

\* search_pmc and search_core: one try block, no loop; except returns None.
SingleTry(c, resp, r) ==
    [c EXCEPT !.tries = @ + 1, !.last = resp.status, !.failed = r.raised,
              !.returned = TRUE, !.ret = IF r.raised THEN None ELSE r.value]

\* A faulty variant: the file is created, the body is not written to it.
WriteFile_discards_content(fs, name, content, write) ==
    IF write = "open_fails" THEN fs
    ELSE { f \in fs : f.name # name } \cup {[name |-> name, content |-> ""]}

\* with open(filename, 'wb') as f: f.write(response.content)
WriteFile(fs, name, content, write) ==
    CASE write = "ok" -> { f \in fs : f.name # name } \cup {[name |-> name, content |-> content]}
      [] write = "write_fails" -> { f \in fs : f.name # name } \cup {[name |-> name, content |-> ""]}
      [] write = "open_fails" -> fs

\* csv.DictWriter writes str(value), and '' for None.
CsvRow(r) ==
    [reference |-> r.reference,
     DOI |-> IF r.DOI = None THEN "" ELSE r.DOI,
     Retrieved |-> IF r.Retrieved THEN "True" ELSE "False",
     Source |-> r.Source]

\* A faulty variant: the header is written, the rows are not.
CsvRows_header_only(rs) == << >>

CsvRows(rs) == [i \in 1..Len(rs) |-> CsvRow(rs[i])]

\* What a turn of a network function leaves in main: the function goes on
\* (c has neither returned nor raised), it returns and main goes to nextPc, or
\* an exception leaves it and travels to the except clause of main's loop.
CallStep(c, nextPc) ==
    /\ call' = c
    /\ IF c.raises
       THEN /\ exc' = "escaped"
            /\ raisedAt' = raisedAt \cup {idx}
            /\ pc' = "except"
            /\ UNCHANGED calls
       ELSE /\ IF c.returned
               THEN calls' = Append(calls, Event(c)) /\ pc' = nextPc
               ELSE UNCHANGED << calls, pc >>
            /\ UNCHANGED << exc, raisedAt >>

(***************************************************************************)
(* Init: read_references has returned.                                     *)
(***************************************************************************)
Init ==
    /\ references \in ReferenceLists
    /\ pc = "main"
    /\ idx = 1
    /\ doi = Unbound
    /\ pdf_url = Unbound
    /\ call = NoCall
    /\ calls = << >>
    /\ results = << >>
    /\ exc = None
    /\ files = {}
    /\ report = NoReport
    /\ saved = "not called"
    /\ raisedAt = {}

(***************************************************************************)
(* main(), lines 248-252: return at once on an empty list.                 *)
(***************************************************************************)
AfterRead(refs) == IF refs = << >> THEN "done" ELSE "loop"

Start ==
    /\ pc = "main"
    /\ pc' = AfterRead(references)
    /\ results' = << >>
    /\ UNCHANGED << references, idx, doi, pdf_url, call, calls, exc, files, report,
                    saved, raisedAt >>

\* A faulty variant: the remote search runs whatever the pattern found.
AfterExtract_always_search(d) == "crossref"

\* Line 256, left operand: doi = extract_doi(ref) or search_crossref(ref).
AfterExtract(d) == IF Truthy(d) THEN "resolved" ELSE "crossref"

Resolve ==
    /\ pc = "loop"
    /\ idx <= Len(references)
    /\ \E d \in {extract_doi(ref)} :
          /\ pc' = AfterExtract(d)
          /\ IF AfterExtract(d) = "resolved"
             THEN doi' = d /\ call' = NoCall
             ELSE doi' = doi /\ call' = NewCall("search_crossref", ref)
    /\ UNCHANGED << references, idx, pdf_url, calls, results, exc, files, report,
                    saved, raisedAt >>

\* search_crossref, one turn of its loop; on return line 256 binds doi.
CrossrefAttempt ==
    /\ pc = "crossref"
    /\ \E i \in 1..Len(CrossrefResponses) :
         LET resp == CrossrefResponses[i]
             c == RetryLoopStep(Received(call, i), resp, search_crossref_try(resp), None)
         IN /\ CallStep(c, "resolved")
            /\ doi' = IF c.returned /\ ~c.raises THEN c.ret ELSE doi
    /\ UNCHANGED << references, idx, pdf_url, results, files, report, saved >>

\* Lines 257-267: no DOI is an outcome; a DOI enters get_pdf_url.
CheckDoi ==
    /\ pc = "resolved"
    /\ IF ~Truthy(doi)
       THEN /\ results' = Append(results, Outcome(ref, "", FALSE, "No DOI found"))
            /\ idx' = idx + 1
            /\ pc' = "loop"
            /\ call' = NoCall
            /\ calls' = << >>
       ELSE /\ call' = NewCall("get_unpaywall_pdf_url", doi)
            /\ pc' = "unpaywall"
            /\ UNCHANGED << results, idx, calls >>
    /\ UNCHANGED << references, doi, pdf_url, exc, files, report, saved, raisedAt >>

\* get_unpaywall_pdf_url, one turn of its loop.
UnpaywallAttempt ==
    /\ pc = "unpaywall"
    /\ \E i \in 1..Len(UnpaywallResponses) :
         LET resp == UnpaywallResponses[i]
         IN CallStep(RetryLoopStep(Received(call, i), resp,
                                   get_unpaywall_pdf_url_try(resp), None),
                     "chain1")
    /\ UNCHANGED << references, idx, doi, pdf_url, results, files, report, saved >>

\* get_pdf_url, lines 191-197 and 198-204: return what a provider found, or
\* sleep DELAY and go on to the next provider.
\* A faulty variant: the pacing delay is missing.
Pace_none(cs) == cs

\* Lines 194 and 201: time.sleep(DELAY) between two providers.
Pace(cs) == Append(cs, Sleep(DELAY))

\* A faulty variant: the early return is missing.
AfterProvider_fallthrough(url, next) == next

AfterProvider(url, next) == IF Truthy(url) THEN "located" ELSE next

AfterUnpaywall ==
    /\ pc = "chain1"
    /\ pc' = AfterProvider(call.ret, "pmc")
    /\ IF AfterProvider(call.ret, "pmc") = "located"
       THEN pdf_url' = call.ret /\ UNCHANGED << call, calls >>
       ELSE /\ calls' = Pace(calls)
            /\ call' = NewCall("search_pmc", doi)
            /\ UNCHANGED pdf_url
    /\ UNCHANGED << references, idx, doi, results, exc, files, report, saved, raisedAt >>

PmcCall ==
    /\ pc = "pmc"
    /\ \E i \in 1..Len(PmcResponses) :
         LET resp == PmcResponses[i]
         IN CallStep(SingleTry(Received(call, i), resp, search_pmc_try(resp)), "chain2")
    /\ UNCHANGED << references, idx, doi, pdf_url, results, files, report, saved >>

AfterPmc ==
    /\ pc = "chain2"
    /\ pc' = AfterProvider(call.ret, "core")
    /\ IF AfterProvider(call.ret, "core") = "located"
       THEN pdf_url' = call.ret /\ UNCHANGED << call, calls >>
       ELSE /\ calls' = Pace(calls)
            /\ call' = NewCall("search_core", doi)
            /\ UNCHANGED pdf_url
    /\ UNCHANGED << references, idx, doi, results, exc, files, report, saved, raisedAt >>

\* search_core, and line 205: get_pdf_url returns whatever CORE gave.
CoreCall ==
    /\ pc = "core"
    /\ \E i \in 1..Len(CoreResponses) :
         LET resp == CoreResponses[i]
             c == SingleTry(Received(call, i), resp, search_core_try(resp))
         IN /\ CallStep(c, "located")
            /\ pdf_url' = IF c.raises THEN pdf_url ELSE c.ret
    /\ UNCHANGED << references, idx, doi, results, files, report, saved >>

\* Lines 268-279: no location is an outcome; a location is downloaded.
CheckPdfUrl ==
    /\ pc = "located"
    /\ IF ~Truthy(pdf_url)
       THEN /\ results' = Append(results, Outcome(ref, doi, FALSE, "No PDF found"))
            /\ idx' = idx + 1
            /\ pc' = "loop"
            /\ call' = NoCall
            /\ calls' = << >>
            /\ pdf_url' = Unbound
       ELSE /\ call' = NewCall("download_pdf", pdf_url)
            /\ pc' = "download"
            /\ UNCHANGED << results, idx, calls, pdf_url >>
    /\ UNCHANGED << references, doi, exc, files, report, saved, raisedAt >>

\* download_pdf, one turn of its loop.
DownloadAttempt ==
    /\ pc = "download"
    /\ \E i \in 1..Len(DownloadResponses), write \in WriteOutcomes :
         LET resp == DownloadResponses[i]
         IN /\ CallStep(RetryLoopStep(Received(call, i), resp,
                                      download_pdf_try(resp, write), FALSE),
                        "report")
            /\ files' = IF RequestRaises(resp) THEN files
                        ELSE WriteFile(files, get_safe_filename(ref, doi), resp.content, write)
    /\ UNCHANGED << references, idx, doi, pdf_url, results, report, saved >>

\* A faulty variant: the download is reported as retrieved whatever it returned.
DownloadSource_always_retrieved(success) == "PDF Retrieved"

\* Lines 281-286: source names what download_pdf returned.
DownloadSource(success) == IF success THEN "PDF Retrieved" ELSE "Download Failed"

\* Lines 281-295: the outcome of the download; the pacing delay of line 295
\* ends the iteration.
Record ==
    /\ pc = "report"
    /\ LET success == call.ret
           source == DownloadSource(success)
       IN results' = Append(results, Outcome(ref, doi, success, source))
    /\ calls' = << >>
    /\ call' = NoCall
    /\ pdf_url' = Unbound
    /\ idx' = idx + 1
    /\ pc' = "loop"
    /\ UNCHANGED << references, doi, exc, files, report, saved, raisedAt >>

(***************************************************************************)
(* An unexpected exception in the try block of the loop body: while line   *)
(* 256 resolves the DOI (doi is not assigned), while line 278 builds the   *)
(* filename, or while lines 281-286 report the download.  time.sleep on a  *)
(* constant and list.append raise nothing that `except Exception` catches.*)
(***************************************************************************)
RaiseUnexpected ==
    /\ \/ pc = "loop" /\ idx <= Len(references)
       \/ pc = "located" /\ Truthy(pdf_url)
       \/ pc = "report"
    /\ \E e \in ExceptionMessages : exc' = e
    /\ raisedAt' = raisedAt \cup {idx}
    /\ pc' = "except"
    /\ UNCHANGED << references, idx, doi, pdf_url, call, calls, results, files, report,
                    saved >>

\* A faulty variant: the message alone is recorded, without the "Error: " label.
ErrorOutcome_unlabelled(reference, d, e) ==
    Outcome(reference, IF d # Unbound THEN d ELSE "", FALSE, e)

\* Lines 297-304: the except clause of the loop body.
ErrorOutcome(reference, d, e) ==
    Outcome(reference, IF d # Unbound THEN d ELSE "", FALSE, "Error: " \o e)

\* A faulty variant: the try statement encloses the whole loop, so the except
\* clause is followed by save_results.
AfterExcept_outside_loop(p) == "save"

\* The except clause sits inside the for loop: the loop goes on.
AfterExcept(p) == "loop"

HandleException ==
    /\ pc = "except"
    /\ results' = Append(results, ErrorOutcome(ref, doi, exc))
    /\ exc' = None
    /\ idx' = idx + 1
    /\ pc' = AfterExcept(pc)
    /\ call' = NoCall
    /\ calls' = << >>
    /\ pdf_url' = Unbound
    /\ UNCHANGED << references, doi, files, report, saved, raisedAt >>

\* The for loop is exhausted: line 307.
LoopExit ==
    /\ pc = "loop"
    /\ idx > Len(references)
    /\ pc' = "save"
    /\ UNCHANGED << references, idx, doi, pdf_url, call, calls, results, exc, files,
                    report, saved, raisedAt >>

\* save_results: the rows are written, or the error is printed and swallowed.
SaveResults ==
    /\ pc = "save"
    /\ \E opened \in BOOLEAN :
         /\ report' = IF opened THEN [exists |-> TRUE, rows |-> CsvRows(results)]
                               ELSE report
         /\ saved' = IF opened THEN "written" ELSE "failed"
    /\ pc' = "done"
    /\ UNCHANGED << references, idx, doi, pdf_url, call, calls, results, exc, files,
                    raisedAt >>

Next ==
    \/ Start
    \/ Resolve
    \/ CrossrefAttempt
    \/ CheckDoi
    \/ UnpaywallAttempt
    \/ AfterUnpaywall
    \/ PmcCall
    \/ AfterPmc
    \/ CoreCall
    \/ CheckPdfUrl
    \/ DownloadAttempt
    \/ Record
    \/ RaiseUnexpected
    \/ HandleException
    \/ LoopExit
    \/ SaveResults

Spec == Init /\ [][Next]_vars

\* The interpreter runs main() on: a step that can be taken is taken.
FairSpec == Spec /\ WF_vars(Next)

(***************************************************************************)
(* Vocabulary of the properties.                                           *)
(***************************************************************************)
\* get_pdf_url's providers, in the order of lines 190, 197 and 204.
Providers == << "get_unpaywall_pdf_url", "search_pmc", "search_core" >>
ProviderSet == { Providers[i] : i \in 1..Len(Providers) }
RetriedFns == { "search_crossref", "get_unpaywall_pdf_url", "download_pdf" }
NetworkFns == RetriedFns \cup ProviderSet

IsProviderEvent(e) == e.fn \in ProviderSet
ProviderEvents == SelectSeq(calls, IsProviderEvent)

\* The providers invoked for the current DOI: those that returned, then the
\* one that is running.
InvokedProviders ==
    [i \in 1..Len(ProviderEvents) |-> ProviderEvents[i].fn]
    \o (IF call.fn \in ProviderSet /\ ~call.returned /\ ~call.raises
        THEN << call.fn >> ELSE << >>)

IsPrefix(a, b) == Len(a) <= Len(b) /\ \A i \in 1..Len(a) : a[i] = b[i]
StartsWith(str, prefix) ==
    Len(str) >= Len(prefix) /\ SubSeq(str, 1, Len(prefix)) = prefix

\* search_crossref is running or has returned for the current reference.
CrossrefCalled ==
    \/ call.fn = "search_crossref"
    \/ \E i \in 1..Len(calls) : calls[i].fn = "search_crossref"

\* The loop of one network function goes round again.
Retried ==
    /\ call'.fn = call.fn
    /\ call.tries >= 1
    /\ call'.tries = call.tries + 1

\* Row i of the report is the outcome of reference i.
ReportRowHolds(i) ==
    /\ report.rows[i].reference = references[i]
    /\ report.rows[i].Source = results[i].Source
    /\ report.rows[i].Retrieved = (IF results[i].Retrieved THEN "True" ELSE "False")
    /\ report.rows[i].DOI = (IF results[i].DOI = None THEN "" ELSE results[i].DOI)

(***************************************************************************)
(* C1.  When the loop of main() has finished, results holds exactly one    *)
(* outcome per input reference, the i-th for the i-th reference: none is   *)
(* skipped, duplicated or reordered, whatever failed or raised.            *)
(***************************************************************************)
C1_OneOutcomePerReference ==
    pc \in {"save", "done"} =>
        /\ Len(results) = Len(references)
        /\ \A i \in 1..Len(references) : results[i].reference = references[i]

\* Two different references, the first of which raised, the second retrieved.
C1_Witness ==
    /\ pc = "save"
    /\ Len(references) = 2
    /\ references[1] # references[2]
    /\ raisedAt = {1}
    /\ results[2].Retrieved

(***************************************************************************)
(* C2.  An unexpected exception raised while one reference is processed is *)
(* caught inside the loop: exactly one outcome is recorded for that        *)
(* reference, with Retrieved = False and a Source that begins with         *)
(* "Error:", and the loop goes on to the next reference; the batch is      *)
(* never cut short.                                                        *)
(***************************************************************************)
C2_ExceptionRecordedBatchContinues ==
    /\ pc = "except" => exc # None /\ idx \in raisedAt
    /\ Len(results) = idx - 1
    /\ \A i \in raisedAt :
         /\ i = idx => pc = "except"
         /\ i < idx =>
              /\ results[i].reference = references[i]
              /\ results[i].Retrieved = FALSE
              /\ StartsWith(results[i].Source, "Error:")
    /\ pc \in {"save", "done"} /\ references # << >> => idx = Len(references) + 1

\* The first reference raised, and the second has been processed to the end.
C2_Witness ==
    /\ pc = "loop"
    /\ raisedAt = {1}
    /\ Len(results) = 2
    /\ results[1].Source = "Error: boom"
    /\ results[2].Source = "PDF Retrieved"

C4_ProviderPriority ==
    /\ IsPrefix(InvokedProviders, Providers)
    /\ \A i \in 1..Len(ProviderEvents) :
         i < Len(InvokedProviders) => ~Truthy(ProviderEvents[i].ret)
    /\ pc = "located" =>
         /\ ProviderEvents # << >>
         /\ pdf_url = ProviderEvents[Len(ProviderEvents)].ret
         /\ Truthy(pdf_url) \/ Len(ProviderEvents) = Len(Providers)

\* Unpaywall returned a location: get_pdf_url has returned it, PMC and CORE
\* were not called.
C4_Witness ==
    /\ pc = "located"
    /\ Len(ProviderEvents) = 1
    /\ ProviderEvents[1].fn = "get_unpaywall_pdf_url"
    /\ pdf_url = "https://oa.example/a.pdf"

(***************************************************************************)
(* C5.  A provider whose request or parsing fails returns absent and       *)
(* raises nothing; after a failed provider the next one is tried; when     *)
(* all three are absent get_pdf_url returns absent without raising.        *)
(***************************************************************************)
C5_ProviderFailuresAbsorbed ==
    /\ call.fn \in ProviderSet => ~call.raises
    /\ \A i \in 1..Len(ProviderEvents) :
         ProviderEvents[i].failed =>
            /\ ProviderEvents[i].ret = None
            /\ i < Len(Providers) /\ i = Len(InvokedProviders) =>
                 pc \in {"chain1", "chain2"}
    /\ pc = "located" /\ ~Truthy(pdf_url) =>
         /\ Len(ProviderEvents) = Len(Providers)
         /\ pdf_url = None
         /\ exc = None

\* All three providers failed, and get_pdf_url has returned absent.
C5_Witness ==
    /\ pc = "located"
    /\ Len(ProviderEvents) = 3
    /\ \A i \in 1..3 : ProviderEvents[i].failed
    /\ pdf_url = None

(***************************************************************************)
(* C6.  While a reference that contains a match of the DOI pattern is      *)
(* processed, search_crossref is never called and doi is the lower-cased   *)
(* match; search_crossref runs only for a reference without a match.       *)
(***************************************************************************)
HasDoiPattern(reference) == \E i \in 1..Len(reference) : DoiMatchesAt(reference, i)

\* The texts of the lists, and for each whether the pattern matches in it and
\* what extract_doi returns for it.
ReferenceTexts == UNION { { l[i] : i \in 1..Len(l) } : l \in ReferenceLists }
TextsWithDoiPattern == { r \in ReferenceTexts : HasDoiPattern(r) }
ExtractedDoi == [r \in ReferenceTexts |-> extract_doi(r)]

C6_PatternShortCircuitsSearch ==
    pc \in {"crossref", "resolved", "unpaywall", "chain1", "pmc", "chain2", "core",
            "located", "download", "report", "except"} =>
        /\ ref \in TextsWithDoiPattern =>
             /\ ~CrossrefCalled
             /\ pc # "except" => doi = ExtractedDoi[ref] /\ doi = lower(doi)
             /\ pc # "except" /\ ref = RefWithDoi => doi = "10.1234/abc"
        /\ CrossrefCalled => ref \notin TextsWithDoiPattern

\* The DOI of "Doe 10.1234/AbC, 2001" is resolved without any call.
C6_Witness ==
    /\ pc = "resolved"
    /\ ref = RefWithDoi
    /\ doi = "10.1234/abc"
    /\ calls = << >>
    /\ call = NoCall

(***************************************************************************)
(* C7.  A retried call whose first two attempts fail and whose third       *)
(* succeeds returns the third attempt's result, having slept exactly two  *)
(* backoff delays, DELAY then 2 * DELAY, the second the larger.            *)
(***************************************************************************)
C7_BackoffOnThirdAttemptSuccess ==
    call.fn \in RetriedFns /\ call.tries = 3 /\ ~call.failed =>
        /\ call.returned /\ ~call.raises
        /\ call.sleeps = << DELAY, 2 * DELAY >>
        /\ call.sleeps[1] < call.sleeps[2]
        /\ call.fn = "download_pdf" => call.ret = TRUE

\* download_pdf succeeded on its third attempt.
C7_Witness ==
    /\ call.fn = "download_pdf"
    /\ call.tries = 3
    /\ call.returned
    /\ call.ret = TRUE
    /\ Len(call.sleeps) = 2

(***************************************************************************)
(* C8, as claimed.  Every network call that fails is attempted again       *)
(* until it succeeds or MAX_RETRIES attempts were made, and none is        *)
(* attempted more often: a call that returns after a failed attempt has    *)
(* made MAX_RETRIES attempts.                                              *)
(***************************************************************************)
C8_EveryCallRetried ==
    call.fn \in NetworkFns =>
        /\ call.tries <= MAX_RETRIES
        /\ call.returned /\ call.failed => call.tries = MAX_RETRIES

(***************************************************************************)
(* C9, as claimed.  The loop of a call goes round again only after a       *)
(* transport failure or a non-2xx response: never after a 2xx response.    *)
(***************************************************************************)
C9_RetryOnlyOnTransportOrHttp ==
    [][Retried => call.last \in {"timeout", "500"}]_vars

(***************************************************************************)
(* C9, amended.  The loop of a call goes round again only after an attempt *)
(* that raised (a transport failure, a non-2xx response, or an error after *)
(* a 2xx response: unparsable body, missing field, failed file write) and  *)
(* only while fewer than MAX_RETRIES attempts were made; an attempt whose   *)
(* try block ran to its return is never followed by another.               *)
(***************************************************************************)
C9_RetryOnlyAfterException ==
    [][Retried => call.failed /\ ~call.returned /\ call.tries < MAX_RETRIES]_vars

\* A first attempt got a 2xx response, raised all the same, and the loop has
\* moved to the second attempt.
C9_Witness ==
    /\ call.fn \in RetriedFns
    /\ call.tries = 1
    /\ call.last = "200"
    /\ call.failed
    /\ call.attempt = 1
    /\ ~call.returned

(***************************************************************************)
(* C10.  A retried call all of whose attempts fail returns None            *)
(* (search_crossref, get_unpaywall_pdf_url) or False (download_pdf) after  *)
(* exactly MAX_RETRIES attempts and MAX_RETRIES - 1 backoff sleeps (none   *)
(* after the last attempt), and raises nothing.                            *)
(***************************************************************************)
C10_ExhaustedRetriesReturnFailure ==
    call.fn \in RetriedFns /\ call.failed =>
        /\ ~call.raises
        /\ ~call.returned => call.tries < MAX_RETRIES /\ Len(call.sleeps) = call.tries
        /\ call.returned =>
             /\ call.tries = MAX_RETRIES
             /\ Len(call.sleeps) = MAX_RETRIES - 1
             /\ IF call.fn = "download_pdf" THEN call.ret = FALSE ELSE call.ret = None

\* search_crossref has given up after its third failed attempt.
C10_Witness ==
    /\ call.fn = "search_crossref"
    /\ call.failed
    /\ call.returned
    /\ call.tries = 3
    /\ call.ret = None

(***************************************************************************)
(* More vocabulary: the step that records an outcome, and the events of    *)
(* get_pdf_url (its providers and its pacing delays).                      *)
(***************************************************************************)
Recorded == Len(results') = Len(results) + 1
NewOutcome == results'[Len(results')]

IsChainEvent(e) == e.fn \in ProviderSet \cup {"time.sleep"}
ChainEvents == SelectSeq(calls, IsChainEvent)

DownloadCalled ==
    \/ call.fn = "download_pdf"
    \/ \E k \in 1..Len(calls) : calls[k].fn = "download_pdf"

UpperCaseLetters == { SubSeq(UPPERCASE, j, j) : j \in 1..Len(UPPERCASE) }
IsLowerCase(s) == \A i \in 1..Len(s) : SubSeq(s, i, i) \notin UpperCaseLetters

(***************************************************************************)
(* C11.  The outcome recorded for a reference names the stage at which its *)
(* processing stopped.  Without an exception: no DOI gives DOI "" with     *)
(* Retrieved False and "No DOI found", and no provider was queried; a DOI  *)
(* for which all three providers returned absent gives "No PDF found" with *)
(* that DOI, and no download was attempted; a download that returned True  *)
(* gives Retrieved True and "PDF Retrieved", one that returned False gives *)
(* Retrieved False and "Download Failed".  In every outcome, that of a     *)
(* caught exception included, Retrieved is True exactly when Source is     *)
(* "PDF Retrieved".                                                        *)
(***************************************************************************)
C11_OutcomeReflectsStage ==
    [][Recorded =>
        LET o == NewOutcome
            downloaded == call.fn = "download_pdf" /\ call.returned
        IN /\ o.reference = ref
           /\ o.Retrieved <=> (o.Source = "PDF Retrieved")
           /\ exc # None => StartsWith(o.Source, "Error:")
           /\ exc = None =>
                /\ o.Source \in {"No DOI found", "No PDF found", "PDF Retrieved",
                                 "Download Failed"}
                /\ (o.Source = "No DOI found") <=> ~Truthy(doi)
                /\ ~Truthy(doi) =>
                     /\ o = Outcome(ref, "", FALSE, "No DOI found")
                     /\ InvokedProviders = << >>
                     /\ ~DownloadCalled
                /\ (o.Source = "No PDF found") <=> (Truthy(doi) /\ ~DownloadCalled)
                /\ Truthy(doi) /\ ~DownloadCalled =>
                     /\ o = Outcome(ref, doi, FALSE, "No PDF found")
                     /\ Len(ProviderEvents) = Len(Providers)
                     /\ \A k \in 1..Len(ProviderEvents) : ~Truthy(ProviderEvents[k].ret)
                /\ DownloadCalled => downloaded
                /\ downloaded /\ call.ret = TRUE =>
                     o = Outcome(ref, doi, TRUE, "PDF Retrieved")
                /\ downloaded /\ call.ret = FALSE =>
                     o = Outcome(ref, doi, FALSE, "Download Failed")
    ]_vars

\* A reference without a DOI, then one whose PDF was retrieved.
C11_Witness ==
    /\ pc = "loop"
    /\ Len(results) = 2
    /\ results[1] = Outcome(RefNoDoi, "", FALSE, "No DOI found")
    /\ results[2] = Outcome(RefWithDoi, "10.1234/abc", TRUE, "PDF Retrieved")

(***************************************************************************)
(* C12.  When an outcome with Retrieved = True is recorded, the output     *)
(* directory holds exactly one file named get_safe_filename(ref, doi), and *)
(* its content is the whole body of the 2xx response that download_pdf     *)
(* received for the located URL.                                           *)
(***************************************************************************)
C12_RetrievedFileHoldsBody ==
    [][Recorded /\ NewOutcome.Retrieved =>
        LET name == get_safe_filename(ref, doi)
        IN /\ call.fn = "download_pdf"
           /\ call.arg = pdf_url
           /\ call.resp > 0
           /\ DownloadResponses[call.resp].status = "200"
           /\ [name |-> name, content |-> DownloadResponses[call.resp].content] \in files'
           /\ \A f \in files' :
                f.name = name => f.content = DownloadResponses[call.resp].content
    ]_vars

\* The PDF of "Doe 10.1234/AbC, 2001" was retrieved and is on disk.
C12_Witness ==
    /\ pc = "loop"
    /\ Len(results) = 1
    /\ results[1].Retrieved
    /\ results[1].reference = RefWithDoi
    /\ [name |-> "Doe 10.1234_AbC, 2001_e45e3f1b.pdf", content |-> "%PDF-1.4"] \in files

(***************************************************************************)
(* C13, as claimed.  Two distinct reference texts whose sanitized forms    *)
(* share their first MAX_FILENAME_LENGTH characters get two distinct       *)
(* filenames: the name computed for the reference being downloaded differs *)
(* from the name of every different earlier reference with that prefix.    *)
(***************************************************************************)
C13_SharedPrefixDistinctFilenames ==
    pc = "download" =>
        \A j \in 1..(idx - 1) :
            /\ references[j] # ref
            /\ Truncate(Sanitize(references[j]), MAX_FILENAME_LENGTH)
                 = Truncate(Sanitize(ref), MAX_FILENAME_LENGTH)
            => get_safe_filename(references[j], results[j].DOI) # get_safe_filename(ref, doi)

(***************************************************************************)
(* C14, as claimed.  A download that writes for the reference at one       *)
(* position never targets the filename of an artifact retrieved for an     *)
(* earlier position of the list, so no retrieved artifact is overwritten.  *)
(***************************************************************************)
C14_WritesTargetDistinctFilenames ==
    [][pc = "download" /\ files' # files =>
        \A j \in 1..(idx - 1) :
            results[j].Retrieved =>
                get_safe_filename(references[j], results[j].DOI) # get_safe_filename(ref, doi)
    ]_vars

(***************************************************************************)
(* C15.  get_unpaywall_pdf_url returns a location only from a response     *)
(* with is_oa set and a best_oa_location: url_for_pdf when it is present   *)
(* and not empty, else url, and None when neither is.  A 2xx response that *)
(* gives no location makes the call return None at once: no other request  *)
(* follows.                                                                *)
(***************************************************************************)
C15_UnpaywallLocation ==
    call.fn = "get_unpaywall_pdf_url" /\ call.resp > 0 =>
        LET resp == UnpaywallResponses[call.resp]
            wellFormed == resp.status = "200" /\ IsJson(resp.body)
            location == resp.body.best_oa_location
            open == wellFormed /\ resp.body.is_oa /\ ~IsNull(location)
        IN /\ call.returned /\ Truthy(call.ret) =>
                /\ open
                /\ call.ret = IF Truthy(location.url_for_pdf)
                              THEN location.url_for_pdf ELSE location.url
           /\ open /\ Truthy(location.url_for_pdf) =>
                call.returned /\ call.ret = location.url_for_pdf
           /\ open /\ ~Truthy(location.url_for_pdf) /\ Truthy(location.url) =>
                call.returned /\ call.ret = location.url
           /\ open /\ ~Truthy(location.url_for_pdf) /\ ~Truthy(location.url) =>
                call.returned /\ call.ret = None
           /\ wellFormed /\ ~open => call.returned /\ call.ret = None
           /\ wellFormed =>
                /\ call.returned /\ ~call.failed /\ ~call.raises
                /\ pc # "unpaywall"
                /\ Len(call.sleeps) = call.tries - 1

\* The record has no url_for_pdf: the landing page is returned.
C15_Witness ==
    /\ call.fn = "get_unpaywall_pdf_url"
    /\ call.returned
    /\ call.resp = 8
    /\ UnpaywallResponses[8].body.best_oa_location.url_for_pdf = None
    /\ call.ret = "https://oa.example/a"

(***************************************************************************)
(* C16.  In get_pdf_url exactly one delay of DELAY seconds is slept        *)
(* between two providers queried one after the other (one before PMC, one  *)
(* before CORE), whatever backoff delays the provider before has slept,    *)
(* and none after the provider whose result get_pdf_url returns.           *)
(***************************************************************************)
C16_FixedDelayBetweenProviders ==
    /\ \A k \in 1..Len(ChainEvents) :
         IF k % 2 = 1
         THEN ChainEvents[k].fn = Providers[(k + 1) \div 2]
         ELSE ChainEvents[k].fn = "time.sleep" /\ ChainEvents[k].arg = DELAY
    /\ pc = "pmc" => Len(ChainEvents) = 2
    /\ pc = "core" => Len(ChainEvents) = 4
    /\ pc \in {"chain1", "chain2", "located", "download", "report"} =>
         Len(ChainEvents) % 2 = 1
    /\ pc \in {"located", "download", "report"} =>
         ChainEvents[Len(ChainEvents)].ret = pdf_url

\* Unpaywall gave up after its backoff delays and PMC found nothing: CORE is
\* about to be queried, after two delays of DELAY seconds.
C16_Witness ==
    /\ pc = "core"
    /\ Len(ChainEvents) = 4
    /\ ChainEvents[1].failed
    /\ ChainEvents[2] = Sleep(DELAY)
    /\ ChainEvents[4] = Sleep(DELAY)

(***************************************************************************)
(* C17.  Every DOI handed to a provider of get_pdf_url, and every DOI in a *)
(* recorded outcome, is in lower case, whether extract_doi matched it in   *)
(* the reference or search_crossref returned it.                           *)
(***************************************************************************)
C17_DoiLowerCase ==
    /\ \A i \in 1..Len(results) : results[i].DOI # None => IsLowerCase(results[i].DOI)
    /\ call.fn \in ProviderSet => IsLowerCase(call.arg)
    /\ \A k \in 1..Len(ProviderEvents) : IsLowerCase(ProviderEvents[k].arg)
    /\ pc \in {"unpaywall", "chain1", "pmc", "chain2", "core", "located", "download",
               "report"} => IsLowerCase(doi)

\* "10.1234/AbC" was matched in the first reference and recorded; "10.5555/XyZ"
\* came from the remote search for the second and is handed to a provider.
C17_Witness ==
    /\ Len(results) = 1
    /\ results[1].DOI = "10.1234/abc"
    /\ idx = 2
    /\ Len(references) = 2
    /\ references[2] = RefNoDoi
    /\ call.fn \in ProviderSet
    /\ call.arg = "10.5555/xyz"

(***************************************************************************)
(* C18, as claimed.  The DOI of every recorded outcome is empty or a DOI   *)
(* that can be resolved from the outcome's own reference: the match of the *)
(* pattern in its text, or else an answer of search_crossref.              *)
(***************************************************************************)
CrossrefAnswers ==
    { search_crossref_try(CrossrefResponses[i]).value :
        i \in { j \in 1..Len(CrossrefResponses) :
                  ~search_crossref_try(CrossrefResponses[j]).raised } }

ResolvableDois(reference) ==
    IF HasDoiPattern(reference) THEN {extract_doi(reference)} ELSE CrossrefAnswers

C18_OutcomeDoiIsOwn ==
    \A i \in 1..Len(results) :
        \/ ~Truthy(results[i].DOI)
        \/ results[i].DOI \in ResolvableDois(references[i])

(***************************************************************************)
(* C19.  When an attempt of search_crossref gets a 2xx answer with an      *)
(* empty item list, or an attempt of get_unpaywall_pdf_url a 2xx answer    *)
(* whose record is not open access, the call returns None from that        *)
(* attempt: it sends no further request and sleeps no backoff delay after  *)
(* it (none at all when the attempt was the first).                        *)
(***************************************************************************)
WellFormedEmpty(c) ==
    /\ c.resp > 0
    /\ \/ /\ c.fn = "search_crossref"
          /\ CrossrefResponses[c.resp].status = "200"
          /\ "message" \in DOMAIN CrossrefResponses[c.resp].body
          /\ CrossrefResponses[c.resp].body.message.items = << >>
       \/ /\ c.fn = "get_unpaywall_pdf_url"
          /\ UnpaywallResponses[c.resp].status = "200"
          /\ IsJson(UnpaywallResponses[c.resp].body)
          /\ ~UnpaywallResponses[c.resp].body.is_oa

C19_EmptyAnswerIsFinal ==
    WellFormedEmpty(call) =>
        /\ call.returned /\ ~call.raises /\ ~call.failed
        /\ call.ret = None
        /\ call.attempt = call.tries - 1
        /\ Len(call.sleeps) = call.tries - 1
        /\ call.tries = 1 => call.sleeps = << >>
        /\ pc \notin {"crossref", "unpaywall"}

\* The first request of search_crossref found no item.
C19_Witness ==
    /\ call.fn = "search_crossref"
    /\ call.resp = 5
    /\ CrossrefResponses[5].body.message.items = << >>
    /\ call.tries = 1
    /\ call.returned
    /\ call.ret = None
    /\ call.sleeps = << >>

(***************************************************************************)
(* C20.  An attempt of download_pdf that gets no 2xx response leaves the   *)
(* output directory as it was, and when it is the last attempt the call    *)
(* returns False; the target file is opened only in an attempt that got a  *)
(* 2xx response, and only such an attempt can make the call return True.   *)
(* So a call none of whose attempts gets a 2xx response returns False and  *)
(* changes no file.                                                        *)
(***************************************************************************)
C20_NoWriteWithout2xx ==
    [][pc = "download" =>
        /\ call'.fn = "download_pdf"
        /\ call'.tries = call.tries + 1
        /\ call'.last # "200" =>
             /\ files' = files
             /\ call'.failed
             /\ call'.returned => call'.ret = FALSE /\ call'.tries = MAX_RETRIES
        /\ files' # files => call'.last = "200"
        /\ call'.returned /\ call'.ret = TRUE => call'.last = "200"
    ]_vars

\* Three attempts, none with a 2xx response: False is returned, no file exists.
C20_Witness ==
    /\ call.fn = "download_pdf"
    /\ call.tries = MAX_RETRIES
    /\ call.sleeps = << DELAY, 2 * DELAY >>
    /\ call.last = "500"
    /\ call.returned
    /\ call.ret = FALSE
    /\ files = {}

====
